---- MODULE Spec2Model ----
(***************************************************************************)
(* Model of kernel/src/memory/context/virtmem.rs: the slot table of a      *)
(* virtual-memory context (SlotMgr inside VirtContext), object             *)
(* invalidation, context teardown, the page-fault handler and the kernel   *)
(* heap (GlobalPageAlloc).                                                 *)
(*                                                                         *)
(* One context is modelled.  Addresses are byte addresses of a scaled-down *)
(* address space: user space is NumSlots slots of MAX_SIZE bytes each,     *)
(* and the kernel half starts right after it.  The kernel heap has its own *)
(* scaled-down range, measured in units of the allocator's smallest hole.  *)
(***************************************************************************)
EXTENDS Integers, Sequences, FiniteSets, TLC

\* ---------------------------------------------------------------- bounds
NumSlots == 2      \* slots in the user half of the address space
NumObjs  == 2      \* objects that can be bound
NumPages == 2      \* pages per object (MAX_SIZE / PAGE_SIZE), page 0 reserved
PageSize == 2      \* bytes per page (PageNumber::PAGE_SIZE, scaled down)
MaxSteps == 5      \* operations in one behaviour
MaxLayoutSize == 2 \* largest size of an allocation request, in heap units

\* ------------------------------------------------------------- value sets
Slots == 0 .. (NumSlots - 1)
ObjIDs == 1 .. NumObjs
PageNumbers == 0 .. NumPages
READ == "READ"
WRITE == "WRITE"
EXEC == "EXEC"
Protections == {{READ}, {READ, WRITE, EXEC}}
CacheTypes == {"WriteBack", "Uncacheable"}
MemoryAccessKind == {"Read", "Write", "InstructionFetch"}
USER == "USER"
INVALID == "INVALID"
PRESENT == "PRESENT"
PageFaultFlags == SUBSET {USER, INVALID, PRESENT}
InvalidateMode == {"Full", "WriteProtect"}

MAX_SIZE == NumPages * PageSize
KernelStart == NumSlots * MAX_SIZE
VirtAddrs == 0 .. (KernelStart + 1)

\* Option<T> as a sequence of length at most one.
None == << >>
Some(x) == << x >>

\* ObjectContextInfo: the caller's view of a binding.
ObjectContextInfos == [obj : ObjIDs, prot : Protections, cache : CacheTypes]

\* ------------------------------------------------------------------ state
VARIABLES
    slots,      \* SlotMgr.slots : BTreeMap<Slot, VirtContextSlot>
    objs,       \* SlotMgr.objs  : BTreeMap<ObjID, Vec<Slot>>
    contexts,   \* objects holding a back-reference to this context
    page_tree,  \* per object, the page numbers that have a page
    pt,         \* the context's page table: virtual page -> mapping
    last,       \* the last operation: its name, slot argument and result
    rc_calls,   \* remove_context calls the last operation made, per object
    trap,       \* the arguments of the last page_fault
    pf,         \* what the last page_fault did
    halted,     \* the kernel panicked
    dropped,    \* the context was dropped
    steps,      \* operations so far
    lock_trace, \* the lock, unlock and delivery events of the last page_fault
    pair,       \* a concurrent insert_object / remove_object pair in progress
    glb,        \* GLOBAL_PAGE_ALLOC : GlobalPageAlloc { alloc, end }
    kheap       \* the kernel heap's surroundings: mapped range, live chunks, last call

vars == << slots, objs, contexts, page_tree, pt, last, rc_calls, trap, pf, halted, dropped, steps,
           lock_trace, pair, glb, kheap >>

\* ------------------------------------------------------- BTreeMap helpers
MapInsert(m, k, v) == [x \in (DOMAIN m) \cup {k} |-> IF x = k THEN v ELSE m[x]]
MapRemove(m, k) == [x \in (DOMAIN m) \ {k} |-> m[x]]
EmptyMap == [x \in {} |-> 0]

\* ---------------------------------------------------------- address types
is_kernel(addr) == addr >= KernelStart

start_vaddr(slot) == slot * MAX_SIZE

Slot_try_from(addr) == IF is_kernel(addr) THEN None ELSE Some(addr \div MAX_SIZE)

from_address(addr) == (addr % MAX_SIZE) \div PageSize

as_byte_offset(pn) == pn * PageSize

\* ---------------------------------------------------------------- SlotMgr
SlotMgr_get(m, slot) == IF slot \in DOMAIN m THEN Some(m[slot]) ELSE None

SlotMgr_insert_objs_NoPush(o, slot, id) == IF id \in DOMAIN o THEN o ELSE MapInsert(o, id, << >>)
SlotMgr_insert_objs(o, slot, id) ==
    IF id \in DOMAIN o THEN [o EXCEPT ![id] = Append(@, slot)]
    ELSE MapInsert(o, id, << slot >>)

SlotMgr_remove_objs_Keep(o, m, slot) == o
SlotMgr_remove_objs(o, m, slot) == MapRemove(o, m[slot].obj)

obj_to_slots(o, id) == IF id \in DOMAIN o THEN Some(o[id]) ELSE None

\* VirtContextSlot built by insert_object.
VirtContextSlot(slot, info) ==
    [obj |-> info.obj, slot |-> slot, prot |-> info.prot, cache |-> info.cache]

\* From<&VirtContextSlot> for ObjectContextInfo
ToObjectContextInfo(vs) == [obj |-> vs.obj, prot |-> vs.prot, cache |-> vs.cache]

mapping_cursor(vs, start, len) == [start |-> start_vaddr(vs.slot) + start, len |-> len]

\* A mutant of mapping_settings: the write-protect request is ignored.
mapping_settings_IgnoreWp(vs, wp) ==
    [prot |-> vs.prot, cache |-> vs.cache, flags |-> "USER"]
mapping_settings(vs, wp) ==
    [prot |-> IF wp THEN vs.prot \ {WRITE} ELSE vs.prot, cache |-> vs.cache, flags |-> "USER"]

\* ------------------------------------------------------- Object (external)
add_context(c, obj) == c \cup {obj}
remove_context(c, obj) == c \ {obj}

ZeroCalls == [o \in ObjIDs |-> 0]

\* -------------------------------------------------- ArchContext (external)
VPages == 0 .. (NumSlots * NumPages - 1)
Covered(cursor) ==
    {p \in VPages : cursor.start <= p * PageSize /\ p * PageSize < cursor.start + cursor.len}

arch_map(t, cursor, phys, settings) ==
    [p \in (DOMAIN t) \cup Covered(cursor) |->
        IF p \in Covered(cursor)
        THEN [phys |-> phys, prot |-> settings.prot, cache |-> settings.cache]
        ELSE t[p]]

arch_unmap(t, cursor) == [p \in (DOMAIN t) \ Covered(cursor) |-> t[p]]

arch_change(t, cursor, settings) ==
    [p \in DOMAIN t |->
        IF p \in Covered(cursor)
        THEN [phys |-> t[p].phys, prot |-> settings.prot, cache |-> settings.cache]
        ELSE t[p]]

\* ------------------------------------------------------ kernel heap values
\* The heap is measured in units of the allocator's smallest hole.
HeapPage == 2           \* Table::level_to_page_size(0), in units
HeapInitLen == 4        \* the 2 MiB that init maps, in units
HEAP_START == 8         \* VirtAddr::HEAP_START
Aligns == {1, 2, 4}     \* alignments of a core::alloc::Layout (powers of two)
Layouts == [size : 0 .. MaxLayoutSize, align : Aligns]

\* linked_list_allocator::Heap::empty(), and end at HEAP_START.
EmptyGlobalPageAlloc ==
    [alloc |-> [bottom |-> 0, size |-> 0, free |-> {}], end |-> HEAP_START]

NoHeapCall ==
    [op |-> "none", layout |-> [size |-> 0, align |-> 1], retried |-> FALSE, grew |-> 0,
     ret |-> None]
NoKernelHeap == [init |-> FALSE, mapped |-> {}, live |-> {}, call |-> NoHeapCall]

\* ------------------------------------------------------------------- Init
NoOp == [op |-> "none", slot |-> 0, was_bound |-> FALSE, ret |-> "none"]
NoTrap == [addr |-> 0, cause |-> "none", flags |-> {}, ctx |-> FALSE]
NoFault == [panic |-> FALSE, upcalls |-> << >>, maps |-> << >>, added |-> {}, requested |-> {}]

\* A new context: nothing bound, nothing mapped.
NewContext ==
    /\ slots = EmptyMap
    /\ objs = EmptyMap
    /\ contexts = {}
    /\ pt = EmptyMap
    /\ last = NoOp
    /\ rc_calls = ZeroCalls
    /\ trap = NoTrap
    /\ pf = NoFault
    /\ halted = FALSE
    /\ dropped = FALSE
    /\ steps = 0
    /\ lock_trace = << >>
    /\ pair = None
    /\ glb = EmptyGlobalPageAlloc
    /\ kheap = NoKernelHeap

\* The objects are new too: no page has been touched.
Init == NewContext /\ page_tree = [o \in ObjIDs |-> {}]

\* Objects outlive contexts: an object bound into a new context may already
\* hold pages (page 0 is reserved and never holds one).
InitAnyObjects == NewContext /\ page_tree \in [ObjIDs -> SUBSET (1 .. (NumPages - 1))]

Running == ~halted /\ ~dropped /\ steps < MaxSteps

\* ---------------------------------------------------------- lookup_object
lookup_object(slot) ==
    IF SlotMgr_get(slots, slot) = None THEN None
    ELSE Some(ToObjectContextInfo(slots[slot]))

\* ---------------------------------------------------------- insert_object
insert_object_ret_ObjOnly(m, slot, info) ==
    IF SlotMgr_get(m, slot) # None /\ m[slot].obj # info.obj
    THEN "Occupied" ELSE "Ok"
insert_object_ret(m, slot, info) ==
    IF SlotMgr_get(m, slot) # None /\ m[slot] # VirtContextSlot(slot, info)
    THEN "Occupied" ELSE "Ok"

insert_object(slot, info) ==
    /\ Running
    /\ contexts' = add_context(contexts, info.obj)
    /\ IF SlotMgr_get(slots, slot) # None
       THEN UNCHANGED << slots, objs >>
       ELSE /\ slots' = MapInsert(slots, slot, VirtContextSlot(slot, info))
            /\ objs' = SlotMgr_insert_objs(objs, slot, info.obj)
    /\ last' = [op |-> "insert_object", slot |-> slot, was_bound |-> slot \in DOMAIN slots,
                ret |-> insert_object_ret(slots, slot, info)]
    /\ rc_calls' = ZeroCalls
    /\ trap' = NoTrap
    /\ pf' = NoFault
    /\ steps' = steps + 1
    /\ lock_trace' = << >>
    /\ UNCHANGED << page_tree, pt, halted, dropped, pair, glb, kheap >>

\* insert_object as the two steps another thread can come between: the
\* back-reference is registered (lines 211-217) before the slot table lock is
\* taken, the table is read and written under the lock (lines 218-226).
\* pair remembers the call in progress, the state it started from and whether
\* remove_object has run on its slot since.
insert_add_context(slot, info) ==
    /\ Running /\ steps + 3 <= MaxSteps
    /\ pair = None
    /\ contexts' = add_context(contexts, info.obj)
    /\ pair' = Some([slot |-> slot, info |-> info, ins |-> 1, rem |-> FALSE,
                     pre |-> [slots |-> slots, objs |-> objs, contexts |-> contexts]])
    /\ last' = [op |-> "add_context", slot |-> slot, was_bound |-> slot \in DOMAIN slots,
                ret |-> "none"]
    /\ rc_calls' = ZeroCalls
    /\ trap' = NoTrap
    /\ pf' = NoFault
    /\ steps' = steps + 1
    /\ lock_trace' = << >>
    /\ UNCHANGED << slots, objs, page_tree, pt, halted, dropped, glb, kheap >>

insert_locked ==
    /\ Running
    /\ pair # None /\ pair[1].ins = 1
    /\ IF SlotMgr_get(slots, pair[1].slot) # None
       THEN UNCHANGED << slots, objs >>
       ELSE /\ slots' = MapInsert(slots, pair[1].slot, VirtContextSlot(pair[1].slot, pair[1].info))
            /\ objs' = SlotMgr_insert_objs(objs, pair[1].slot, pair[1].info.obj)
    /\ last' = [op |-> "insert_object", slot |-> pair[1].slot,
                was_bound |-> pair[1].slot \in DOMAIN slots,
                ret |-> insert_object_ret(slots, pair[1].slot, pair[1].info)]
    /\ pair' = Some([pair[1] EXCEPT !.ins = 2])
    /\ rc_calls' = ZeroCalls
    /\ trap' = NoTrap
    /\ pf' = NoFault
    /\ steps' = steps + 1
    /\ lock_trace' = << >>
    /\ UNCHANGED << contexts, page_tree, pt, halted, dropped, glb, kheap >>

\* remove_object ran on the slot of the insert in progress.
note_remove(p, slot) ==
    IF p # None /\ p[1].slot = slot THEN Some([p[1] EXCEPT !.rem = TRUE]) ELSE p

\* ---------------------------------------------------------- remove_object
remove_object(slot) ==
    /\ Running
    /\ IF slot \in DOMAIN slots
       THEN /\ slots' = MapRemove(slots, slot)
            /\ objs' = SlotMgr_remove_objs(objs, slots, slot)
            /\ contexts' = remove_context(contexts, slots[slot].obj)
            /\ rc_calls' = [ZeroCalls EXCEPT ![slots[slot].obj] = 1]
            /\ last' = [op |-> "remove_object", slot |-> slot, was_bound |-> TRUE, ret |-> "Some"]
       ELSE /\ UNCHANGED << slots, objs, contexts >>
            /\ rc_calls' = ZeroCalls
            /\ last' = [op |-> "remove_object", slot |-> slot, was_bound |-> FALSE, ret |-> "None"]
    /\ trap' = NoTrap
    /\ pf' = NoFault
    /\ steps' = steps + 1
    /\ lock_trace' = << >>
    /\ pair' = note_remove(pair, slot)
    /\ UNCHANGED << page_tree, pt, halted, dropped, glb, kheap >>

\* ------------------------------------------------------ invalidate_object
\* The loop over the object's slot list: each slot's covered range is unmapped
\* (Full) or re-applied without WRITE (WriteProtect); a listed slot missing
\* from the primary map is the failed expect.
RECURSIVE invalidate_slots(_, _, _, _, _, _)
invalidate_slots(t, m, maps, start, len, mode) ==
    IF maps = << >> THEN [pt |-> t, panic |-> FALSE]
    ELSE IF SlotMgr_get(m, Head(maps)) = None THEN [pt |-> t, panic |-> TRUE]
    ELSE LET info == m[Head(maps)]
             t2 == IF mode = "Full"
                   THEN arch_unmap(t, mapping_cursor(info, start, len))
                   ELSE arch_change(t, mapping_cursor(info, start, len),
                                    mapping_settings(info, TRUE))
         IN  invalidate_slots(t2, m, Tail(maps), start, len, mode)

invalidate_result(t, m, o, obj, range, mode) ==
    LET start == as_byte_offset(range.start)
        len == as_byte_offset(range.end) - start
    IN  IF obj_to_slots(o, obj) = None THEN [pt |-> t, panic |-> FALSE]
        ELSE invalidate_slots(t, m, o[obj], start, len, mode)

PageRanges == {r \in [start : PageNumbers, end : PageNumbers] : r.start <= r.end}

invalidate_object(obj, range, mode) ==
    /\ Running
    /\ pt' = invalidate_result(pt, slots, objs, obj, range, mode).pt
    /\ halted' = invalidate_result(pt, slots, objs, obj, range, mode).panic
    /\ last' = [op |-> "invalidate_object", slot |-> 0, was_bound |-> FALSE, ret |-> mode]
    /\ rc_calls' = ZeroCalls
    /\ trap' = NoTrap
    /\ pf' = NoFault
    /\ steps' = steps + 1
    /\ lock_trace' = << >>
    /\ UNCHANGED << slots, objs, contexts, page_tree, dropped, pair, glb, kheap >>

\* ------------------------------------------------------ Drop for VirtContext
\* One remove_context call per entry of the primary map.
drop_calls_Distinct(m) == [o \in ObjIDs |-> IF \E s \in DOMAIN m : m[s].obj = o THEN 1 ELSE 0]
drop_calls(m) == [o \in ObjIDs |-> Cardinality({s \in DOMAIN m : m[s].obj = o})]

drop ==
    /\ ~halted /\ ~dropped
    /\ rc_calls' = drop_calls(slots)
    /\ contexts' = contexts \ {slots[s].obj : s \in DOMAIN slots}
    /\ dropped' = TRUE
    /\ last' = [op |-> "drop", slot |-> 0, was_bound |-> FALSE, ret |-> "none"]
    /\ trap' = NoTrap
    /\ pf' = NoFault
    /\ lock_trace' = << >>
    /\ UNCHANGED << slots, objs, page_tree, pt, halted, steps, pair, glb, kheap >>

\* -------------------------------------------------------------- page_fault
MemoryContextViolation(addr, cause) ==
    [type |-> "MemoryContextViolation", addr |-> addr, cause |-> cause]
NullPageAccess == [kind |-> "NullPageAccess", offset |-> 0]
OutOfBounds(off) == [kind |-> "OutOfBounds", offset |-> off]
ObjectMemoryFault(id, err, cause) ==
    [type |-> "ObjectMemoryFault", obj |-> id, error |-> err, cause |-> cause]

Fatal == [panic |-> TRUE, upcalls |-> << >>, maps |-> << >>, added |-> {}, requested |-> {}]
Upcall(u) == [panic |-> FALSE, upcalls |-> << u >>, maps |-> << >>, added |-> {}, requested |-> {}]

\* A mutant of fault_on_page: the null-page upcall is sent but the handler
\* does not return and maps the page as well.
fault_on_page_NoReturn(tree, info, page_number, cause, cow) ==
    LET call == [cursor |-> mapping_cursor(info, as_byte_offset(page_number), PageSize),
                 phys |-> << info.obj, page_number >>,
                 settings |-> mapping_settings(info, cow)]
        req == [obj |-> info.obj, pn |-> page_number, write |-> (cause = "Write")]
    IN  [panic |-> FALSE,
         upcalls |-> IF page_number = 0
                     THEN << ObjectMemoryFault(info.obj, NullPageAccess, cause) >>
                     ELSE << >>,
         maps |-> << call >>,
         added |-> IF page_number \in tree[info.obj] THEN {} ELSE {<< info.obj, page_number >>},
         requested |-> {req}]

\* A mutant of fault_on_page: the bounds test is > instead of >=.
fault_on_page_BoundsGt(tree, info, page_number, cause, cow) ==
    LET call == [cursor |-> mapping_cursor(info, as_byte_offset(page_number), PageSize),
                 phys |-> << info.obj, page_number >>,
                 settings |-> mapping_settings(info, cow)]
        req == [obj |-> info.obj, pn |-> page_number, write |-> (cause = "Write")]
    IN  IF page_number = 0
        THEN Upcall(ObjectMemoryFault(info.obj, NullPageAccess, cause))
        ELSE IF as_byte_offset(page_number) > MAX_SIZE
        THEN Upcall(ObjectMemoryFault(info.obj, OutOfBounds(as_byte_offset(page_number)), cause))
        ELSE [panic |-> FALSE, upcalls |-> << >>, maps |-> << call >>,
              added |-> IF page_number \in tree[info.obj] THEN {}
                        ELSE {<< info.obj, page_number >>},
              requested |-> {req}]

\* A mutant of fault_on_page: an absent page is mapped without being added to
\* the page tree.
fault_on_page_NoAdd(tree, info, page_number, cause, cow) ==
    LET call == [cursor |-> mapping_cursor(info, as_byte_offset(page_number), PageSize),
                 phys |-> << info.obj, page_number >>,
                 settings |-> mapping_settings(info, cow)]
        req == [obj |-> info.obj, pn |-> page_number, write |-> (cause = "Write")]
    IN  IF page_number = 0
        THEN Upcall(ObjectMemoryFault(info.obj, NullPageAccess, cause))
        ELSE IF as_byte_offset(page_number) >= MAX_SIZE
        THEN Upcall(ObjectMemoryFault(info.obj, OutOfBounds(as_byte_offset(page_number)), cause))
        ELSE [panic |-> FALSE, upcalls |-> << >>, maps |-> << call >>,
              added |-> {}, requested |-> {req}]

\* The branch for a bound slot (lines 449-492) once the page number is known:
\* info is the binding, cow the copy-on-write flag the page tree answers with.
fault_on_page(tree, info, page_number, cause, cow) ==
    LET write == (cause = "Write")
        call == [cursor |-> mapping_cursor(info, as_byte_offset(page_number), PageSize),
                 phys |-> << info.obj, page_number >>,
                 settings |-> mapping_settings(info, cow)]
        req == [obj |-> info.obj, pn |-> page_number, write |-> write]
    IN  IF page_number = 0
        THEN Upcall(ObjectMemoryFault(info.obj, NullPageAccess, cause))
        ELSE IF as_byte_offset(page_number) >= MAX_SIZE
        THEN Upcall(ObjectMemoryFault(info.obj, OutOfBounds(as_byte_offset(page_number)), cause))
        ELSE IF page_number \in tree[info.obj]
        THEN [panic |-> FALSE, upcalls |-> << >>, maps |-> << call >>,
              added |-> {}, requested |-> {req}]
        ELSE [panic |-> FALSE, upcalls |-> << >>, maps |-> << call >>,
              added |-> {<< info.obj, page_number >>}, requested |-> {req}]

fault_in_slot(tree, info, addr, cause, cow) ==
    fault_on_page(tree, info, from_address(addr), cause, cow)

\* The branch for a slot with no binding (lines 493-499).
fault_unbound_Silent(addr, cause) == NoFault
fault_unbound(addr, cause) == Upcall(MemoryContextViolation(addr, cause))

\* A mutant of page_fault_result: the active context is resolved before the
\* address is tested for kernel space.
page_fault_result_CtxFirst(m, tree, addr, cause, flags, ctx, cow) ==
    IF INVALID \in flags THEN Fatal
    ELSE IF USER \notin flags /\ is_kernel(addr) THEN Fatal
    ELSE IF ~ctx THEN Fatal
    ELSE IF is_kernel(addr) THEN Upcall(MemoryContextViolation(addr, cause))
    ELSE IF SlotMgr_get(m, Slot_try_from(addr)[1]) # None
    THEN fault_in_slot(tree, m[Slot_try_from(addr)[1]], addr, cause, cow)
    ELSE fault_unbound(addr, cause)

\* The whole handler: ctx says whether current_memory_context() is this context
\* (TRUE) or None (FALSE).  send_upcall is reached only in a user-mode fault or
\* under a context, where there is a current thread.
page_fault_result(m, tree, addr, cause, flags, ctx, cow) ==
    IF INVALID \in flags THEN Fatal
    ELSE IF USER \notin flags /\ is_kernel(addr) THEN Fatal
    ELSE IF is_kernel(addr) THEN Upcall(MemoryContextViolation(addr, cause))
    ELSE IF ~ctx THEN Fatal
    ELSE IF Slot_try_from(addr) = None THEN Upcall(MemoryContextViolation(addr, cause))
    ELSE IF SlotMgr_get(m, Slot_try_from(addr)[1]) # None
    THEN fault_in_slot(tree, m[Slot_try_from(addr)[1]], addr, cause, cow)
    ELSE fault_unbound(addr, cause)

\* The locks the handler takes and drops, and what it does in between, in
\* program order.  slot_mgr (line 447) lives to the end of the function and
\* obj_page_tree (line 451) to the end of the if-let block, so a return inside
\* the block drops the page tree guard and then the slot table guard.
Lock(l) == [ev |-> "lock", lock |-> l]
Unlock(l) == [ev |-> "unlock", lock |-> l]
Did(what) == [ev |-> what, lock |-> "none"]

\* A mutant of page_fault_locks: the slot table guard is dropped once the
\* binding is found, before the page tree is locked.
page_fault_locks_Early(m, addr, cause, flags, ctx) ==
    IF INVALID \in flags THEN << Did("panic") >>
    ELSE IF USER \notin flags /\ is_kernel(addr) THEN << Did("panic") >>
    ELSE IF is_kernel(addr) THEN << Did("upcall") >>
    ELSE IF ~ctx THEN << Did("panic") >>
    ELSE IF Slot_try_from(addr) = None THEN << Did("upcall") >>
    ELSE IF SlotMgr_get(m, Slot_try_from(addr)[1]) # None
    THEN << Lock("slots"), Unlock("slots"), Lock("page_tree"),
            IF from_address(addr) = 0 \/ as_byte_offset(from_address(addr)) >= MAX_SIZE
            THEN Did("upcall") ELSE Did("map"),
            Unlock("page_tree") >>
    ELSE << Lock("slots"), Did("upcall"), Unlock("slots") >>

page_fault_locks(m, addr, cause, flags, ctx) ==
    IF INVALID \in flags THEN << Did("panic") >>
    ELSE IF USER \notin flags /\ is_kernel(addr) THEN << Did("panic") >>
    ELSE IF is_kernel(addr) THEN << Did("upcall") >>
    ELSE IF ~ctx THEN << Did("panic") >>
    ELSE IF Slot_try_from(addr) = None THEN << Did("upcall") >>
    ELSE IF SlotMgr_get(m, Slot_try_from(addr)[1]) # None
    THEN << Lock("slots"), Lock("page_tree"),
            IF from_address(addr) = 0 \/ as_byte_offset(from_address(addr)) >= MAX_SIZE
            THEN Did("upcall") ELSE Did("map"),
            Unlock("page_tree"), Unlock("slots") >>
    ELSE << Lock("slots"), Did("upcall"), Unlock("slots") >>

RECURSIVE apply_maps(_, _)
apply_maps(t, calls) ==
    IF calls = << >> THEN t
    ELSE apply_maps(arch_map(t, Head(calls).cursor, Head(calls).phys, Head(calls).settings),
                    Tail(calls))

page_fault(addr, cause, flags, ctx, cow) ==
    /\ Running
    /\ trap' = [addr |-> addr, cause |-> cause, flags |-> flags, ctx |-> ctx]
    /\ pf' = page_fault_result(slots, page_tree, addr, cause, flags, ctx, cow)
    /\ pt' = apply_maps(pt, pf'.maps)
    /\ page_tree' = [o \in ObjIDs |-> page_tree[o] \cup {a[2] : a \in {b \in pf'.added : b[1] = o}}]
    /\ halted' = pf'.panic
    /\ last' = [op |-> "page_fault", slot |-> 0, was_bound |-> FALSE, ret |-> "none"]
    /\ rc_calls' = ZeroCalls
    /\ steps' = steps + 1
    /\ lock_trace' = page_fault_locks(slots, addr, cause, flags, ctx)
    /\ UNCHANGED << slots, objs, contexts, dropped, pair, glb, kheap >>

\* ------------------------------------------------- linked_list_allocator::Heap
\* The free list as the set of free units; a hole is a maximal run of them.
Range(a, len) == a .. (a + len - 1)

align_up(x, a) == ((x + a - 1) \div a) * a

\* A request takes at least the smallest hole.
required_size(layout) == IF layout.size < 1 THEN 1 ELSE layout.size

\* The aligned addresses at which the request fits in a hole.
Fits(free, layout) ==
    {x \in free : x % layout.align = 0 /\ Range(x, required_size(layout)) \subseteq free}

Lowest(S) == CHOOSE x \in S : \A y \in S : x <= y

\* First fit: the holes are kept in address order, the first that can hold the
\* request gives its lowest aligned address.
allocate_first_fit(alloc, layout) ==
    IF Fits(alloc.free, layout) = {} THEN [ret |-> None, alloc |-> alloc]
    ELSE [ret |-> Some(Lowest(Fits(alloc.free, layout))),
          alloc |-> [alloc EXCEPT !.free =
                        @ \ Range(Lowest(Fits(alloc.free, layout)), required_size(layout))]]

Heap_deallocate(alloc, ptr, layout) ==
    [alloc EXCEPT !.free = @ \cup Range(ptr, required_size(layout))]

Heap_extend(alloc, by) ==
    [alloc EXCEPT !.free = @ \cup Range(alloc.bottom + alloc.size, by), !.size = @ + by]

Heap_init(bottom, size) == [bottom |-> bottom, size |-> size, free |-> Range(bottom, size)]

\* ------------------------------------------------------------ GlobalPageAlloc
\* A mutant of GlobalPageAlloc_extend: end is not advanced.
GlobalPageAlloc_extend_NoAdvance(g, len) ==
    [alloc |-> Heap_extend(g.alloc, len), end |-> g.end]
GlobalPageAlloc_extend(g, len) ==
    [alloc |-> Heap_extend(g.alloc, len), end |-> g.end + len]

GlobalPageAlloc_init(g) ==
    [alloc |-> Heap_init(HEAP_START, HeapInitLen), end |-> g.end + HeapInitLen]

\* layout.pad_to_align().size().next_multiple_of(page size) * 2
pad_to_align_size(layout) == align_up(layout.size, layout.align)
next_multiple_of(x, n) == align_up(x, n)
growth_size(layout) == next_multiple_of(pad_to_align_size(layout), HeapPage) * 2

\* allocate_chunk: what it returns, the allocator it leaves and whether the
\* first attempt failed; ret is None when the unwrap of the retry fails.
allocate_chunk_result(g, layout) ==
    LET first == allocate_first_fit(g.alloc, layout)
        grown == GlobalPageAlloc_extend(g, growth_size(layout))
        second == allocate_first_fit(grown.alloc, layout)
    IN  IF first.ret # None
        THEN [ret |-> first.ret, glb |-> [g EXCEPT !.alloc = first.alloc],
              retried |-> FALSE, grew |-> 0, cursor |-> [start |-> g.end, len |-> 0]]
        ELSE [ret |-> second.ret, glb |-> [grown EXCEPT !.alloc = second.alloc],
              retried |-> TRUE, grew |-> growth_size(layout),
              cursor |-> [start |-> g.end, len |-> growth_size(layout)]]

HeapUnchanged ==
    /\ last' = NoOp
    /\ rc_calls' = ZeroCalls
    /\ trap' = NoTrap
    /\ pf' = NoFault
    /\ lock_trace' = << >>
    /\ UNCHANGED << slots, objs, contexts, page_tree, pt, dropped, pair >>

init_allocator ==
    /\ Running /\ ~kheap.init
    /\ glb' = GlobalPageAlloc_init(glb)
    /\ kheap' = [init |-> TRUE,
                 mapped |-> kheap.mapped \cup Range(glb.end, HeapInitLen),
                 live |-> kheap.live,
                 call |-> [NoHeapCall EXCEPT !.op = "init_allocator"]]
    /\ steps' = steps + 1
    /\ UNCHANGED halted
    /\ HeapUnchanged

allocate_chunk(layout) ==
    /\ Running /\ kheap.init
    /\ LET r == allocate_chunk_result(glb, layout)
       IN  /\ glb' = r.glb
           /\ halted' = (r.ret = None)
           /\ kheap' = [init |-> TRUE,
                        mapped |-> kheap.mapped \cup Range(r.cursor.start, r.cursor.len),
                        live |-> IF r.ret = None THEN kheap.live
                                 ELSE kheap.live \cup {[ptr |-> r.ret[1], layout |-> layout]},
                        call |-> [op |-> "allocate_chunk", layout |-> layout,
                                  retried |-> r.retried, grew |-> r.grew, ret |-> r.ret]]
    /\ steps' = steps + 1
    /\ HeapUnchanged

\* The caller hands back a chunk it got from allocate_chunk, with its layout.
deallocate_chunk(layout, ptr) ==
    /\ Running /\ kheap.init
    /\ [ptr |-> ptr, layout |-> layout] \in kheap.live
    /\ glb' = [glb EXCEPT !.alloc = Heap_deallocate(glb.alloc, ptr, layout)]
    /\ kheap' = [kheap EXCEPT !.live = @ \ {[ptr |-> ptr, layout |-> layout]},
                              !.call = [NoHeapCall EXCEPT !.op = "deallocate_chunk",
                                                          !.layout = layout]]
    /\ steps' = steps + 1
    /\ UNCHANGED halted
    /\ HeapUnchanged

\* ---------------------------------------------------------- specifications
Inserts == \E slot \in Slots, info \in ObjectContextInfos : insert_object(slot, info)
Removes == \E slot \in Slots : remove_object(slot)
Invalidates ==
    \E obj \in ObjIDs, range \in PageRanges, mode \in InvalidateMode :
        invalidate_object(obj, range, mode)

\* The copy-on-write flags get_page can answer with on this fault: either one
\* when the handler asks the page tree, none to choose when it does not.
CowAnswers(addr, cause, flags, ctx) ==
    IF page_fault_result(slots, page_tree, addr, cause, flags, ctx, FALSE).requested = {}
    THEN {FALSE} ELSE BOOLEAN

\* A fault taken in user mode on a user address under this context.
UserFault ==
    \E addr \in {a \in VirtAddrs : ~is_kernel(a)}, cause \in MemoryAccessKind :
        \E cow \in CowAnswers(addr, cause, {USER}, TRUE) :
            page_fault(addr, cause, {USER}, TRUE, cow)

\* A fault with any address, flags and active context.
AnyFault ==
    \E addr \in VirtAddrs, cause \in MemoryAccessKind, flags \in PageFaultFlags,
       ctx \in BOOLEAN :
        \E cow \in CowAnswers(addr, cause, flags, ctx) :
            page_fault(addr, cause, flags, ctx, cow)

\* The address space in use: bindings come and go, user accesses fault,
\* objects are invalidated.
Next == Inserts \/ Removes \/ Invalidates \/ UserFault \/ drop

Spec == Init /\ [][Next]_vars

\* The slot table alone, up to teardown.
NextTable == Inserts \/ Removes \/ drop

SpecTable == Init /\ [][NextTable]_vars

\* The fault handler under every input the trap path can hand it.  The handler
\* reads the primary map and the page trees only, and one insert per slot
\* reaches every primary map; one trap is observed in each state they reach.
FirstInserts ==
    \E slot \in Slots \ DOMAIN slots, info \in ObjectContextInfos : insert_object(slot, info)

\* The one observed trap.
Trap == last.op # "page_fault" /\ AnyFault

NextFault == (last.op # "page_fault" /\ FirstInserts) \/ Trap

SpecFault == InitAnyObjects /\ [][NextFault]_vars

\* insert_object(s, b) and remove_object(s) called by two threads on a slot
\* table that earlier calls have filled: the remove runs before, between or
\* after the two steps of the insert.
EarlierCalls == pair = None /\ (Inserts \/ Removes)
StartInsert == \E slot \in Slots, info \in ObjectContextInfos : insert_add_context(slot, info)
ConcurrentRemove == pair # None /\ ~pair[1].rem /\ remove_object(pair[1].slot)

NextConc == EarlierCalls \/ StartInsert \/ insert_locked \/ ConcurrentRemove

SpecConc == Init /\ [][NextConc]_vars

\* The kernel heap: initialised once, then any allocations and deallocations.
Allocs == \E layout \in Layouts : allocate_chunk(layout)
Deallocs == \E c \in kheap.live : deallocate_chunk(c.layout, c.ptr)

NextHeap == init_allocator \/ Allocs \/ Deallocs

SpecHeap == Init /\ [][NextHeap]_vars

\* ======================================================= slot table claims
Occurrences(seq, x) == Cardinality({i \in 1 .. Len(seq) : seq[i] = x})

\* One entry for slot s: it is a key of the primary map and occurs once in
\* the slot list of the object it is bound to.
OneEntry(s, b) ==
    /\ s \in DOMAIN slots
    /\ b.obj \in DOMAIN objs
    /\ Occurrences(objs[b.obj], s) = 1

FreshInsert(s) ==
    last = [op |-> "insert_object", slot |-> s, was_bound |-> FALSE, ret |-> "Ok"]

\* C1: insert_object(s, b) on an unbound slot returns Ok and lookup_object(s)
\* then returns b; inserting the same binding again right after returns Ok too
\* and leaves one entry for s in the primary map and one occurrence of s in
\* the object's slot list.
C1_InsertThenLookup ==
    [][last'.op = "insert_object" =>
        \A s \in {last'.slot}, b \in ObjectContextInfos :
            ((s \notin DOMAIN slots \/ (FreshInsert(s) /\ lookup_object(s) = Some(b)))
                    /\ insert_object(s, b)) =>
                /\ (s \notin DOMAIN slots =>
                        /\ last'.ret = "Ok"
                        /\ lookup_object(s)' = Some(b)
                        /\ OneEntry(s, b)')
                /\ ((FreshInsert(s) /\ lookup_object(s) = Some(b)) =>
                        /\ last'.ret = "Ok"
                        /\ lookup_object(s)' = Some(b)
                        /\ OneEntry(s, b)')]_vars

\* C1 witness: an insert of the binding a slot already holds returned Ok and
\* the slot has its one entry.
C1_Witness ==
    /\ last.op = "insert_object" /\ last.was_bound /\ last.ret = "Ok"
    /\ OneEntry(last.slot, slots[last.slot])

\* C2: insert_object(s, b2) on a slot bound to a different binding returns
\* Occupied and changes neither map of the slot table; lookup_object(s)
\* returns the original binding.
C2_OccupiedUnchanged ==
    [][last'.op = "insert_object" =>
        \A s \in {last'.slot} \cap DOMAIN slots :
            (\E b \in ObjectContextInfos \ {ToObjectContextInfo(slots[s])} : insert_object(s, b)) =>
                /\ last'.ret = "Occupied"
                /\ slots' = slots
                /\ objs' = objs
                /\ lookup_object(s)' = lookup_object(s)]_vars

\* C2 witness: an insert was refused and the slot is still bound.
C2_Witness ==
    /\ last.op = "insert_object" /\ last.ret = "Occupied"
    /\ lookup_object(last.slot) # None

InSecondary(s) == \E o \in DOMAIN objs : Occurrences(objs[o], s) > 0

\* C3: after remove_object(s) on a bound slot, lookup_object(s) is none and s
\* is in no slot list of the secondary index; on an unbound slot it changes
\* nothing and calls remove_context on no object.
C3_RemoveUnbinds ==
    [][last'.op = "remove_object" =>
        \A s \in {last'.slot} :
            remove_object(s) =>
                IF s \in DOMAIN slots
                THEN /\ lookup_object(s)' = None
                     /\ ~InSecondary(s)'
                ELSE /\ slots' = slots /\ objs' = objs /\ contexts' = contexts
                     /\ pt' = pt /\ page_tree' = page_tree
                     /\ rc_calls' = ZeroCalls]_vars

\* C3 witness: a bound slot was removed while another slot stays bound.
C3_Witness ==
    /\ last.op = "remove_object" /\ last.was_bound
    /\ lookup_object(last.slot) = None
    /\ DOMAIN slots # {}

RECURSIVE SumCalls(_, _)
SumCalls(f, S) ==
    IF S = {} THEN 0
    ELSE LET o == CHOOSE x \in S : TRUE IN f[o] + SumCalls(f, S \ {o})

BoundObjs == {slots[s].obj : s \in DOMAIN slots}

\* C6 as stated: dropping the context calls remove_context once for each
\* object still bound and for no object more than once.
C6_OncePerObject ==
    dropped => \A o \in ObjIDs : rc_calls[o] = (IF o \in BoundObjs THEN 1 ELSE 0)

\* C6 amended: dropping a context with n live bindings makes n remove_context
\* calls, one per binding: every object still bound gets one call for each
\* slot it is bound into, an object bound nowhere gets none, and no bound
\* object keeps its back-reference.
C6_OncePerBinding ==
    dropped =>
        /\ SumCalls(rc_calls, ObjIDs) = Cardinality(DOMAIN slots)
        /\ \A s \in DOMAIN slots : rc_calls[slots[s].obj] >= 1
        /\ \A o \in ObjIDs \ BoundObjs : rc_calls[o] = 0
        /\ \A o \in ObjIDs :
              \A S \in SUBSET (DOMAIN slots) :
                  (\A s \in S : slots[s].obj = o) => rc_calls[o] >= Cardinality(S)
        /\ contexts \cap BoundObjs = {}

\* C6 witness: a context was dropped with one object bound into two slots.
C6_Witness ==
    /\ dropped
    /\ \E s1, s2 \in DOMAIN slots : s1 # s2 /\ slots[s1].obj = slots[s2].obj

\* ======================================================= invalidation claims
\* The virtual pages of slot s that a page range covers.
RangePages(s, range) ==
    Covered([start |-> start_vaddr(s) + as_byte_offset(range.start),
             len |-> as_byte_offset(range.end) - as_byte_offset(range.start)])

SlotsOf(obj) == {s \in DOMAIN slots : slots[s].obj = obj}

\* C4: invalidate_object(obj, range, mode) reaches the covered range of every
\* slot bound to obj in the primary map: after Full no page of the range is
\* mapped in any of these slots, after WriteProtect none is writable.
C4_InvalidateEveryBoundSlot ==
    [][last'.op = "invalidate_object" =>
        \A obj \in ObjIDs, range \in PageRanges, mode \in InvalidateMode :
            invalidate_object(obj, range, mode) =>
                \A s \in SlotsOf(obj) : \A p \in RangePages(s, range) :
                    IF mode = "Full" THEN p \notin DOMAIN pt'
                    ELSE p \in DOMAIN pt' => WRITE \notin pt'[p].prot]_vars

\* C5: after invalidate_object(obj, range, WriteProtect) every mapped page of
\* the range in a slot bound to obj carries the binding's protection without
\* WRITE and the binding's cache policy, and every other mapping is as before.
C5_WriteProtectEveryBoundSlot ==
    [][last'.op = "invalidate_object" =>
        \A obj \in ObjIDs, range \in PageRanges :
            invalidate_object(obj, range, "WriteProtect") =>
                /\ DOMAIN pt' = DOMAIN pt
                /\ \A s \in SlotsOf(obj) : \A p \in RangePages(s, range) \cap DOMAIN pt :
                      /\ pt'[p].prot = slots[s].prot \ {WRITE}
                      /\ pt'[p].cache = slots[s].cache
                      /\ pt'[p].phys = pt[p].phys
                /\ \A p \in DOMAIN pt :
                      (p \div NumPages) \notin SlotsOf(obj) => pt'[p] = pt[p]]_vars

\* ========================================================= page fault claims
Faulted == last.op = "page_fault"

\* The trap is past the fatal tests and the kernel-address test: a user-space
\* address, handled under this context.
UserSpaceTrap ==
    /\ Faulted
    /\ INVALID \notin trap.flags
    /\ ~is_kernel(trap.addr)
    /\ trap.ctx

TrapSlot == trap.addr \div MAX_SIZE

MappedOutcome ==
    /\ ~pf.panic /\ pf.upcalls = << >>
    /\ Len(pf.maps) = 1 /\ Cardinality(Covered(pf.maps[1].cursor)) = 1
UpcallOutcome == ~pf.panic /\ Len(pf.upcalls) = 1 /\ pf.maps = << >>
FatalOutcome == pf.panic /\ pf.upcalls = << >> /\ pf.maps = << >>

\* C7: a page_fault ends in one of three outcomes that exclude each other: one
\* page mapping installed and no upcall, one upcall and no mapping, or a
\* panic with neither; the page table changes only in the first, and only at
\* the one page.
C7_OneOutcome ==
    [][last'.op = "page_fault" =>
        /\ Cardinality({o \in {"map", "upcall", "fatal"} :
                \/ o = "map" /\ MappedOutcome'
                \/ o = "upcall" /\ UpcallOutcome'
                \/ o = "fatal" /\ FatalOutcome'}) = 1
        /\ halted' = FatalOutcome'
        /\ ~MappedOutcome' => pt' = pt
        /\ MappedOutcome' =>
              /\ Covered(pf'.maps[1].cursor) \subseteq DOMAIN pt'
              /\ DOMAIN pt' = DOMAIN pt \cup Covered(pf'.maps[1].cursor)
              /\ \A p \in DOMAIN pt \ Covered(pf'.maps[1].cursor) : pt'[p] = pt[p]]_vars

\* C7 witness: a fault installed its one mapping and sent no upcall.
C7_Witness == Faulted /\ MappedOutcome /\ pt # EmptyMap

\* C8: the tests come in the stated order: INVALID is fatal whatever the other
\* flags and the address; else a non-USER fault on a kernel address is fatal;
\* else a fault on a kernel address sends MemoryContextViolation{addr, cause}
\* with or without an active context and whatever the slot table holds; else
\* the context is resolved, its absence is fatal and its presence is not.
C8_DecisionOrder ==
    Faulted =>
        IF INVALID \in trap.flags THEN pf = Fatal
        ELSE IF USER \notin trap.flags /\ is_kernel(trap.addr) THEN pf = Fatal
        ELSE IF is_kernel(trap.addr)
        THEN pf = Upcall(MemoryContextViolation(trap.addr, trap.cause))
        ELSE IF ~trap.ctx THEN pf = Fatal
        ELSE ~pf.panic

\* C8 witness: a user-mode fault on a kernel address with no active context
\* got its upcall while slots were bound.
C8_Witness ==
    /\ Faulted /\ trap.flags = {USER, PRESENT} /\ is_kernel(trap.addr) /\ ~trap.ctx
    /\ pf = Upcall(MemoryContextViolation(trap.addr, trap.cause))
    /\ DOMAIN slots # {}

\* C9: a user-space fault in a slot with no binding sends
\* MemoryContextViolation{addr, cause} and nothing else: no mapping, no page
\* added to a page tree, the slot table as before.
C9_UnboundSlot ==
    [][(UserSpaceTrap' /\ TrapSlot' \notin DOMAIN slots) =>
        /\ pf' = Upcall(MemoryContextViolation(trap'.addr, trap'.cause))
        /\ pt' = pt
        /\ page_tree' = page_tree
        /\ slots' = slots /\ objs' = objs]_vars

\* C9 witness: the fault hit an unbound slot next to a bound one, on a page an
\* object already holds.
C9_Witness ==
    /\ UserSpaceTrap /\ TrapSlot \notin DOMAIN slots /\ DOMAIN slots # {}
    /\ from_address(trap.addr) # 0
    /\ pf.upcalls = << MemoryContextViolation(trap.addr, trap.cause) >>
    /\ \E o \in ObjIDs : page_tree[o] # {}

\* The page numbers at or past the end of an object.
PastEnd == NumPages .. (NumPages + 1)

\* C10: in a bound slot, a fault on page number 0 sends
\* ObjectMemoryFault{id, NullPageAccess, cause}, and a page number whose byte
\* offset is at or past MAX_SIZE sends ObjectMemoryFault{id, OutOfBounds(offset),
\* cause}; id is the bound object's id, the page tree is neither asked nor
\* changed and no mapping is installed.
C10_NullAndOutOfBounds ==
    /\ [][(UserSpaceTrap' /\ TrapSlot' \in DOMAIN slots) =>
            LET id == slots[TrapSlot'].obj
                pn == from_address(trap'.addr)
                quiet == /\ pf'.requested = {} /\ pf'.added = {}
                         /\ page_tree' = page_tree /\ pt' = pt
            IN  /\ pn = 0 =>
                      /\ pf' = Upcall(ObjectMemoryFault(id, NullPageAccess, trap'.cause))
                      /\ quiet
                /\ (pn # 0 /\ as_byte_offset(pn) >= MAX_SIZE) =>
                      /\ pf' = Upcall(ObjectMemoryFault(id, OutOfBounds(as_byte_offset(pn)),
                                                        trap'.cause))
                      /\ quiet]_vars
    /\ [](\A s \in DOMAIN slots, pn \in PastEnd, cause \in MemoryAccessKind, cow \in BOOLEAN :
            fault_on_page(page_tree, slots[s], pn, cause, cow) =
                Upcall(ObjectMemoryFault(slots[s].obj, OutOfBounds(as_byte_offset(pn)), cause)))

\* C10 witness: a write to the null page of a bound slot got its upcall, with
\* the object named in it.
C10_Witness ==
    /\ UserSpaceTrap /\ TrapSlot \in DOMAIN slots
    /\ from_address(trap.addr) = 0 /\ trap.cause = "Write"
    /\ pf.upcalls = << ObjectMemoryFault(slots[TrapSlot].obj, NullPageAccess, "Write") >>
    /\ pf.maps = << >>

\* ================================================== page materialisation claims
\* The protection an access of each kind needs from the mapping it goes through.
Needs(cause) ==
    IF cause = "Write" THEN WRITE ELSE IF cause = "InstructionFetch" THEN EXEC ELSE READ

\* The access at addr goes through: its page is mapped with the protection the
\* access kind needs.
access_ok(t, addr, cause) ==
    /\ addr \div PageSize \in DOMAIN t
    /\ Needs(cause) \in t[addr \div PageSize].prot

TrapPage == from_address(trap.addr)
TrapVPage == trap.addr \div PageSize

\* The trap is on a page of a bound slot that is neither the null page nor past
\* the end: the handler goes to the page tree.
PageTrap ==
    /\ UserSpaceTrap /\ TrapSlot \in DOMAIN slots
    /\ TrapPage # 0 /\ as_byte_offset(TrapPage) < MAX_SIZE

C16_MappingSettings ==
    [][PageTrap' =>
        \A cow \in BOOLEAN :
            page_fault(trap'.addr, trap'.cause, trap'.flags, trap'.ctx, cow) =>
                /\ Len(pf'.maps) = 1
                /\ TrapVPage' \in DOMAIN pt'
                /\ pt'[TrapVPage'].cache = slots[TrapSlot'].cache
                /\ pt'[TrapVPage'].prot =
                      (IF cow THEN slots[TrapSlot'].prot \ {WRITE} ELSE slots[TrapSlot'].prot)
                /\ (WRITE \in pt'[TrapVPage'].prot) <=> (WRITE \in slots[TrapSlot'].prot /\ ~cow)
                /\ pf'.requested = {[obj |-> slots[TrapSlot'].obj, pn |-> TrapPage',
                                     write |-> (trap'.cause = "Write")]}]_vars

\* C16 witness: a read through a writable binding was mapped without WRITE
\* (the page tree reported copy-on-write) and asked without write intent.
C16_Witness ==
    /\ PageTrap /\ trap.cause = "Read"
    /\ WRITE \in slots[TrapSlot].prot
    /\ TrapVPage \in DOMAIN pt /\ WRITE \notin pt[TrapVPage].prot
    /\ \E r \in pf.requested : ~r.write

\* ===================================================== slot table invariants
\* C14: a slot s is in the secondary index under obj if and only if the
\* primary map binds s to obj.
C14_SlotTableConsistent ==
    \A s \in Slots, o \in ObjIDs :
        (o \in DOMAIN objs /\ Occurrences(objs[o], s) > 0)
            <=> (s \in DOMAIN slots /\ slots[s].obj = o)

\* C17: while the context lives, an object holds its back-reference to the
\* context if and only if it is bound in at least one slot.
C17_BackReferences ==
    ~dropped => \A o \in ObjIDs : (o \in contexts) <=> (o \in BoundObjs)

\* C20: every slot in a list of the secondary index is a key of the primary
\* map, so no invalidate_object can fail its expect and none has.
C20_ListedSlotsBound ==
    /\ \A o \in DOMAIN objs : \A i \in 1 .. Len(objs[o]) : objs[o][i] \in DOMAIN slots
    /\ \A obj \in ObjIDs, range \in PageRanges, mode \in InvalidateMode :
          ~invalidate_result(pt, slots, objs, obj, range, mode).panic
    /\ last.op = "invalidate_object" => ~halted

\* C20 witness: an object listed with two slots was invalidated.
C20_Witness ==
    /\ last.op = "invalidate_object" /\ ~halted
    /\ \E o \in DOMAIN objs : Len(objs[o]) = 2

\* The slot a virtual page lies in.
SlotOfVPage(p) == p \div NumPages

\* C19: every mapping of the page table lies in a bound slot and maps a page
\* of the object bound there; in particular none is left in a slot that
\* remove_object has unbound.
C19_MappingsInBoundSlots ==
    \A p \in DOMAIN pt :
        /\ SlotOfVPage(p) \in DOMAIN slots
        /\ pt[p].phys[1] = slots[SlotOfVPage(p)].obj

\* ============================================================ locking claims
\* The locks held after the first i events of a trace.
Held(tr, i) ==
    {l \in {"slots", "page_tree"} :
        Cardinality({j \in 1 .. i : tr[j] = Lock(l)})
            > Cardinality({j \in 1 .. i : tr[j] = Unlock(l)})}

\* C15 as stated: the handler never holds the slot table lock and the page
\* tree lock at the same time, and holds neither while it delivers an upcall.
C15_LocksNeverOverlap ==
    Faulted =>
        /\ \A i \in 0 .. Len(lock_trace) : Held(lock_trace, i) # {"slots", "page_tree"}
        /\ \A i \in 1 .. Len(lock_trace) :
              lock_trace[i].ev = "upcall" => Held(lock_trace, i - 1) = {}

\* What the handler does instead: the page tree lock is taken after the slot
\* table lock and while that lock is still held, never without it; the guards
\* are dropped in the reverse order and none is held when the handler returns.
\* The mapping, and the null-page and out-of-bounds upcalls, happen under both
\* locks, the unbound-slot upcall under the slot table lock, the
\* kernel-address upcall under none; a panic holds none.
NestedLocks ==
    Faulted =>
        /\ \A i \in 1 .. Len(lock_trace) :
              /\ lock_trace[i] = Lock("page_tree") => Held(lock_trace, i - 1) = {"slots"}
              /\ lock_trace[i] = Lock("slots") => Held(lock_trace, i - 1) = {}
              /\ lock_trace[i] = Unlock("slots") => Held(lock_trace, i - 1) = {"slots"}
              /\ lock_trace[i] = Unlock("page_tree") =>
                    Held(lock_trace, i - 1) = {"slots", "page_tree"}
              /\ lock_trace[i].ev = "map" => Held(lock_trace, i - 1) = {"slots", "page_tree"}
              /\ lock_trace[i].ev = "panic" => Held(lock_trace, i - 1) = {}
              /\ lock_trace[i].ev = "upcall" =>
                    Held(lock_trace, i - 1) =
                        (IF is_kernel(trap.addr) THEN {}
                         ELSE IF TrapSlot \in DOMAIN slots THEN {"slots", "page_tree"}
                         ELSE {"slots"})
        /\ Held(lock_trace, Len(lock_trace)) = {}
        /\ Cardinality({i \in 1 .. Len(lock_trace) : lock_trace[i].ev = "upcall"})
              = Len(pf.upcalls)
        /\ Cardinality({i \in 1 .. Len(lock_trace) : lock_trace[i].ev = "map"}) = Len(pf.maps)
        /\ (\E i \in 1 .. Len(lock_trace) : lock_trace[i].ev = "panic") <=> pf.panic

\* The null-page upcall of a bound slot was delivered with both locks held.
NestedLocksSeen ==
    /\ Faulted /\ Len(pf.upcalls) = 1 /\ pf.upcalls[1].type = "ObjectMemoryFault"
    /\ \E i \in 1 .. Len(lock_trace) :
          lock_trace[i].ev = "upcall" /\ Held(lock_trace, i - 1) = {"slots", "page_tree"}

\* ========================================================= atomicity claims
\* The slot table and back-references after insert_object(slot, info) and after
\* remove_object(slot), each run alone from st.
AfterInsert(st, slot, info) ==
    [slots |-> IF slot \in DOMAIN st.slots THEN st.slots
               ELSE MapInsert(st.slots, slot, VirtContextSlot(slot, info)),
     objs |-> IF slot \in DOMAIN st.slots THEN st.objs
              ELSE SlotMgr_insert_objs(st.objs, slot, info.obj),
     contexts |-> add_context(st.contexts, info.obj)]

AfterRemove(st, slot) ==
    IF slot \in DOMAIN st.slots
    THEN [slots |-> MapRemove(st.slots, slot),
          objs |-> SlotMgr_remove_objs(st.objs, st.slots, slot),
          contexts |-> remove_context(st.contexts, st.slots[slot].obj)]
    ELSE st

PairDone == pair # None /\ pair[1].ins = 2 /\ pair[1].rem

\* C18: when a concurrent insert_object(s, b) and remove_object(s) have both
\* returned, the bindings and the back-references are those of one of the two
\* sequential orders.
C18_PairSerializable ==
    PairDone =>
        LET p == pair[1]
            now == [slots |-> slots, contexts |-> contexts]
            ir == AfterRemove(AfterInsert(p.pre, p.slot, p.info), p.slot)
            ri == AfterInsert(AfterRemove(p.pre, p.slot), p.slot, p.info)
        IN  \/ now = [slots |-> ir.slots, contexts |-> ir.contexts]
            \/ now = [slots |-> ri.slots, contexts |-> ri.contexts]

\* ======================================================== kernel heap claims
HeapCall == steps' = steps + 1 /\ kheap'.call.op # "none"

\* C12: the end of the heap never moves back: deallocate_chunk leaves it and
\* the mapped range alone, no call unmaps, init advances it by the initial
\* length and an allocation that has to grow the heap by the growth size; it
\* changes in no other way, and the mapped range always ends at it.
C12_EndMonotonic ==
    [][HeapCall =>
        /\ glb'.end >= glb.end
        /\ kheap.mapped \subseteq kheap'.mapped
        /\ kheap'.mapped = Range(HEAP_START, glb'.end - HEAP_START)
        /\ kheap'.call.op = "deallocate_chunk" =>
              glb'.end = glb.end /\ kheap'.mapped = kheap.mapped
        /\ kheap'.call.op = "init_allocator" => glb'.end = glb.end + HeapInitLen
        /\ kheap'.call.op = "allocate_chunk" =>
              glb'.end = glb.end + (IF kheap'.call.retried
                                    THEN growth_size(kheap'.call.layout) ELSE 0)]_vars

\* C12 witness: a chunk was handed back after the heap had grown.
C12_Witness ==
    /\ kheap.call.op = "deallocate_chunk"
    /\ glb.end > HEAP_START + HeapInitLen

\* C13: whenever the first first-fit attempt of allocate_chunk fails, the
\* retry after growing the heap succeeds: the unwrap never fails.
C13_RetrySucceeds ==
    (kheap.call.op = "allocate_chunk" /\ kheap.call.retried) =>
        kheap.call.ret # None /\ ~halted
====
